---------------------------- MODULE Spec2Model ----------------------------
(***************************************************************************)
(* Model of Hurricane_Data_Analysis.py: the single-pass streaming analysis *)
(* of a HURDAT2 best-track file done by main(), with the helper functions  *)
(* it calls (record field accessors, point, hour_diff, norm, check).       *)
(*                                                                         *)
(* Conventions.                                                            *)
(*  - A text field that the code compares or slices as a string is a       *)
(*    sequence: dates and times are sequences of decimal digits, wind      *)
(*    radii fields are sequences of character codes.                       *)
(*  - A Python float is an exact rational <<n, d>> in lowest terms.        *)
(*  - Bearings are whole degrees; distances are whole nautical miles.      *)
(*  - pygeodesy (distanceTo / bearingTo) is outside the repository: its    *)
(*    result for two different points is any element of GeodesicOutcomes.  *)
(***************************************************************************)
EXTENDS Integers, Sequences, FiniteSets

(***************************************************************************)
(* Bounds of the model.                                                    *)
(***************************************************************************)
\* number of lines the line source delivers before end of input
MaxLines == 5
\* number of storms in the two orderings compared by SpecOrder
MaxStorms == 2

(***************************************************************************)
(* Program constants.                                                      *)
(***************************************************************************)
NoData == -999
Confirmed == 1
\* Python's None, the value check() returns when it does not confirm
None == 0
\* a forced leg recorded like a leg the checker did not confirm
Forced_AsNone == None
\* line 225: the outcome of a leg the guard decides
Forced == -1
SecondsPerHour == 3600
SecondsPerDay == 86400
FullTurn == 360
QuadrantWidth == 90
LowOffset == 45
HighOffset == 90
HalfTurnTenths == 1800
\* character codes of the wind radii text: space, minus, digit zero, newline
ChSpace == 32
ChMinus == 45
ChZero == 48
ChNewline == 10
\* width of one right-justified wind radius field of the input layout
FieldWidth == 5

(***************************************************************************)
(* Exact rationals for Python floats.                                      *)
(***************************************************************************)
RECURSIVE GCD(_, _)
GCD(a, b) == IF b = 0 THEN a ELSE GCD(b, a % b)

Abs(x) == IF x < 0 THEN -x ELSE x

\* n / d in lowest terms, d > 0
Rat(n, d) == LET g == GCD(Abs(n), d) IN <<n \div g, d \div g>>

RatZero == <<0, 1>>

RatLess(a, b) == a[1] * b[2] < b[1] * a[2]

RatAdd(a, b) == Rat(a[1] * b[2] + b[1] * a[2], a[2] * b[2])

RatDivInt(a, k) == Rat(a[1], a[2] * k)

RECURSIVE RatSum(_)
RatSum(s) == IF s = <<>> THEN RatZero ELSE RatAdd(Head(s), RatSum(Tail(s)))

\* Python max(list): the first element no other element exceeds
RatMax(s) ==
    LET i == CHOOSE i \in DOMAIN s :
                 /\ \A j \in DOMAIN s : ~RatLess(s[i], s[j])
                 /\ \A j \in 1..(i - 1) : RatLess(s[j], s[i])
    IN s[i]

(***************************************************************************)
(* Text of the wind radii fields.                                          *)
(***************************************************************************)
RECURSIVE DigitCodes(_)
DigitCodes(n) ==
    IF n < 10 THEN <<ChZero + n>>
    ELSE Append(DigitCodes(n \div 10), ChZero + (n % 10))

RECURSIVE PadLeft(_, _)
PadLeft(s, w) == IF Len(s) >= w THEN s ELSE PadLeft(<<ChSpace>> \o s, w)

\* the text of one wind radius field as the input file lays it out
RadiusText(v) ==
    PadLeft(IF v < 0 THEN <<ChMinus>> \o DigitCodes(-v) ELSE DigitCodes(v),
            FieldWidth)

\* Python str < str: lexicographic by character code, a proper prefix first
RECURSIVE StrLess(_, _)
StrLess(a, b) ==
    IF b = <<>> THEN FALSE
    ELSE IF a = <<>> THEN TRUE
    ELSE IF Head(a) # Head(b) THEN Head(a) < Head(b)
    ELSE StrLess(Tail(a), Tail(b))

\* Python max(list of str): the first element no other element exceeds
StrMax(s) ==
    LET i == CHOOSE i \in DOMAIN s :
                 /\ \A j \in DOMAIN s : ~StrLess(s[i], s[j])
                 /\ \A j \in 1..(i - 1) : StrLess(s[j], s[i])
    IN s[i]

RECURSIVE DigitsValue(_)
DigitsValue(s) ==
    IF s = <<>> THEN 0
    ELSE 10 * DigitsValue(SubSeq(s, 1, Len(s) - 1)) + (s[Len(s)] - ChZero)

\* Python int(str): surrounding white space dropped, optional sign, digits
ParseInt(s) ==
    LET body == SelectSeq(s, LAMBDA c : c # ChSpace /\ c # ChNewline)
    IN IF Head(body) = ChMinus THEN -DigitsValue(Tail(body))
       ELSE DigitsValue(body)

(***************************************************************************)
(* The input lines.  A header line starts with a letter, an observation    *)
(* line with a digit; Eof is the empty string readline() returns at the    *)
(* end of the input.                                                       *)
(***************************************************************************)
Eof == [kind |-> "eof"]

HeaderLine(id, name) == [kind |-> "header", id |-> id, name |-> name]

ObsLine(date, time, rectype, status, lat, lon, wind, radii) ==
    [kind |-> "obs", date |-> date, time |-> time, rectype |-> rectype,
     status |-> status, lat |-> lat, lon |-> lon, wind |-> wind,
     radii |-> radii]

HeaderLines == {HeaderLine("AL012001", "UNNAMED"), HeaderLine("AL022001", "ALLISON")}

AllNoData == [i \in 1..12 |-> NoData]
AllZero == [i \in 1..12 |-> 0]

\* 2001-01-01 00:00, tropical storm, no radii recorded
Obs1 == ObsLine(<<2,0,0,1,0,1,0,1>>, <<0,0,0,0>>, "", "TS",
                <<280, "N">>, <<948, "W">>, 50, AllNoData)
\* 2001-01-01 06:00, hurricane at landfall, largest radius in the NE quadrant
Obs2 == ObsLine(<<2,0,0,1,0,1,0,1>>, <<0,6,0,0>>, "L", "HU",
                <<285, "N">>, <<953, "W">>, 80,
                <<30, 0, 0, 0, 0, 0, 0, 0, 0, 0, 0, 0>>)
\* 2001-01-02 06:00, same position as Obs2, 34 kt radii only
Obs3 == ObsLine(<<2,0,0,1,0,1,0,2>>, <<0,6,0,0>>, "", "HU",
                <<285, "N">>, <<953, "W">>, 80,
                <<50, 40, 30, 20, NoData, NoData, NoData, NoData,
                  NoData, NoData, NoData, NoData>>)
\* 2003-09-01 12:00, wind not recorded (-99), no wind extent
Obs4 == ObsLine(<<2,0,0,3,0,9,0,1>>, <<1,2,0,0>>, "", "TS",
                <<280, "N">>, <<948, "W">>, -99, AllZero)
\* 2002-06-15 12:00, longitude beyond 180, largest radius tied in SW and NW
Obs5 == ObsLine(<<2,0,0,2,0,6,1,5>>, <<1,2,0,0>>, "", "TD",
                <<150, "N">>, <<1850, "E">>, 0,
                <<0, 0, 60, 0, 0, 0, 0, 60, 0, 0, 0, 0>>)

ObsLines == {Obs1, Obs2, Obs3, Obs4, Obs5}

\* what pygeodesy may return for two different points: <<distance, bearing>>
GeodesicOutcomes == {<<60, 0>>, <<60, 10>>, <<30, 270>>}

(***************************************************************************)
(* Record field accessors.                                                 *)
(***************************************************************************)
RECURSIVE NumOf(_)
NumOf(digits) ==
    IF digits = <<>> THEN 0
    ELSE 10 * NumOf(SubSeq(digits, 1, Len(digits) - 1)) + digits[Len(digits)]

storm_id(record) == record.id

\* the name, or None for 'UNNAMED'
storm_name(record) == IF record.name # "UNNAMED" THEN record.name ELSE "None"

is_landfill(record) == record.rectype = "L"

is_hurricane(record) == record.status = "HU"

wind(record) == record.wind

year_of(record) == NumOf(SubSeq(record.date, 1, 4))

storm_date(record) == record.date

storm_time(record) == record.time

\* row.split(',')[8:] : the twelve radii fields and the text after the last comma
RadiiFields(record) ==
    [i \in 1..13 |-> IF i <= 12 THEN RadiusText(record.radii[i])
                     ELSE <<ChNewline>>]

flip_direction(direction) ==
    CASE direction = "E" -> "W"
      [] direction = "W" -> "E"
      [] direction = "N" -> "S"
      [] direction = "S" -> "N"

\* LatLon(lat, lon): signed tenths of a degree, a longitude beyond 180 reflected
point(data) ==
    LET lon_num == data.lon[1]
        lon_dir == data.lon[2]
        lon == IF lon_num > HalfTurnTenths
               THEN <<2 * HalfTurnTenths - lon_num, flip_direction(lon_dir)>>
               ELSE <<lon_num, lon_dir>>
    IN [lat |-> IF data.lat[2] = "S" THEN -data.lat[1] ELSE data.lat[1],
        lon |-> IF lon[2] = "W" THEN -lon[1] ELSE lon[1]]

(***************************************************************************)
(* hour_diff: datetime.strptime, datetime subtraction, abs, .seconds       *)
(***************************************************************************)
IsLeap(y) == (y % 4 = 0 /\ y % 100 # 0) \/ y % 400 = 0

DaysBeforeYear(y) ==
    LET p == y - 1 IN p * 365 + p \div 4 - p \div 100 + p \div 400

DaysInMonth(y, m) ==
    IF m = 2 THEN (IF IsLeap(y) THEN 29 ELSE 28)
    ELSE IF m \in {4, 6, 9, 11} THEN 30 ELSE 31

RECURSIVE DaysBeforeMonth(_, _)
DaysBeforeMonth(y, m) ==
    IF m = 1 THEN 0 ELSE DaysBeforeMonth(y, m - 1) + DaysInMonth(y, m - 1)

\* strptime(key, "%Y%m%d%H%M") as <<proleptic ordinal day, second of the day>>
Strptime(key) ==
    LET y == NumOf(SubSeq(key, 1, 4))
        m == NumOf(SubSeq(key, 5, 6))
        dd == NumOf(SubSeq(key, 7, 8))
        hh == NumOf(SubSeq(key, 9, 10))
        mi == NumOf(SubSeq(key, 11, 12))
    IN <<DaysBeforeYear(y) + DaysBeforeMonth(y, m) + dd, hh * 3600 + mi * 60>>

\* a timedelta, normalised as Python does: 0 <= seconds < 86400
Timedelta(days, seconds) ==
    [days |-> days + seconds \div SecondsPerDay, seconds |-> seconds % SecondsPerDay]

TimedeltaAbs(td) ==
    IF td.days < 0 THEN Timedelta(-td.days, -td.seconds) ELSE td

\* the seconds attribute of abs(s2 - s1)
ElapsedSeconds(time1, time2) ==
    LET s1 == Strptime(time1)
        s2 == Strptime(time2)
    IN TimedeltaAbs(Timedelta(s2[1] - s1[1], s2[2] - s1[2])).seconds

hour_diff(time1, time2) == Rat(ElapsedSeconds(time1, time2), SecondsPerHour)

(***************************************************************************)
(* The quadrant hypothesis checker.                                        *)
(***************************************************************************)
InList(x, list) == \E i \in DOMAIN list : list[i] = x

norm(angle) == IF angle > FullTurn THEN angle - FullTurn ELSE angle

\* the quadrants (0 NE, 1 SE, 2 SW, 3 NW) holding one of the indices
Quadrants(indices) ==
    (IF InList(0, indices) \/ InList(4, indices) \/ InList(8, indices)
     THEN <<0>> ELSE <<>>) \o
    (IF InList(1, indices) \/ InList(5, indices) \/ InList(9, indices)
     THEN <<1>> ELSE <<>>) \o
    (IF InList(2, indices) \/ InList(6, indices) \/ InList(10, indices)
     THEN <<2>> ELSE <<>>) \o
    (IF InList(3, indices) \/ InList(7, indices) \/ InList(11, indices)
     THEN <<3>> ELSE <<>>)

check(indices, bearing) ==
    LET min_bearing == norm(bearing + LowOffset) \div QuadrantWidth
        max_bearing == norm(bearing + HighOffset) \div QuadrantWidth
        indices1 == Quadrants(indices)
    IN IF InList(min_bearing, indices1) \/ InList(max_bearing, indices1)
       THEN Confirmed ELSE None

\* line 224: the outcome is forced without consulting check
Guard(radii, bearing) ==
    \/ ParseInt(StrMax(radii)) = NoData
    \/ ParseInt(StrMax(radii)) = 0
    \/ bearing = 0

\* line 227: the zero-based positions whose text equals the largest text
MaxIndices(radii) ==
    LET m == StrMax(radii)
        F[i \in 0..Len(radii)] ==
            IF i = 0 THEN <<>>
            ELSE IF radii[i] = m THEN Append(F[i - 1], i - 1) ELSE F[i - 1]
    IN F[Len(radii)]

(***************************************************************************)
(* The dataset summary printed after the last storm (lines 257-269).       *)
(***************************************************************************)
NoError == "none"
ValueErrorYear == "ValueError at line 190"
ZeroDivisionSpeed == "ZeroDivisionError at line 222"
IndexErrorYear == "IndexError at line 260"
ZeroDivisionRate == "ZeroDivisionError at line 268"

\* a count that misses the last element of the list
CountOf_SkipLast(list, v) ==
    Cardinality({i \in 1..(Len(list) - 1) : list[i] = v})

\* Counter(list)[v]
CountOf(list, v) == Cardinality({i \in DOMAIN list : list[i] = v})

\* the loop of lines 260-265 stopping before the last storm's year
YearRange_Exclusive(year) ==
    LET first == year[1]
        last == year[Len(year)]
    IN [i \in 1..(IF first < last THEN last - first ELSE 0) |-> first + i - 1]

\* the values start_year takes in the loop of lines 260-265
YearRange(year) ==
    LET first == year[1]
        last == year[Len(year)]
    IN [i \in 1..(IF first <= last THEN last - first + 1 ELSE 0) |-> first + i - 1]

\* the two lines printed for each year
YearlyReport(year, hurricane) ==
    LET range == YearRange(year)
    IN [i \in DOMAIN range |->
           [year |-> range[i],
            storms |-> CountOf(year, range[i]),
            hurricanes |-> CountOf(hurricane, range[i])]]

\* a total that leaves the confirmed legs out
RateTotal_NoneOnly(result) == CountOf(result, None)

\* c3[1] + c3[None]
RateTotal(result) == CountOf(result, Confirmed) + CountOf(result, None)

\* (c3[1] / (c3[1] + c3[None])) * 100.0
Rate(result) == Rat(CountOf(result, Confirmed) * 100, RateTotal(result))

NoRate == <<>>

NoSummary == [yearly |-> <<>>, rate |-> NoRate, error |-> "pending"]

DatasetSummary(year, hurricane, result) ==
    IF year = <<>>
    THEN [yearly |-> <<>>, rate |-> NoRate, error |-> IndexErrorYear]
    ELSE IF RateTotal(result) = 0
    THEN [yearly |-> YearlyReport(year, hurricane), rate |-> NoRate,
          error |-> ZeroDivisionRate]
    ELSE [yearly |-> YearlyReport(year, hurricane), rate |-> Rate(result),
          error |-> NoError]

(***************************************************************************)
(* State.                                                                  *)
(***************************************************************************)
VARIABLES
    \* the line source and the control state of main()
    row, nread, pc, error,
    \* dataset accumulators
    year, hurricane, result,
    \* per storm locals
    date, h, max_wind, count, d, t, y, curr_point, curr_time,
    sum_distance, storm_propagation, radii,
    \* per leg locals
    next_point, next_time, distance, bearing, indices, hours,
    \* what is printed: the storm's header, the storm's report, the summary
    storm, stormReport, summary,
    \* history: the observation rows of the storm being read, the storms
    \* finished so far, how each leg's outcome was decided, and the length
    \* of result when the storm began
    track, storms, tally, base,
    \* SpecOrder: two orderings of the same storms and their summaries
    stormsA, stormsB, outA, outB

sourceVars == <<row, nread>>
datasetVars == <<year, hurricane, result>>
stormVars == <<date, h, max_wind, count, d, t, y, curr_point, curr_time,
               sum_distance, storm_propagation, radii>>
legVars == <<next_point, next_time, distance, bearing, indices, hours>>
printVars == <<storm, stormReport, summary>>
historyVars == <<track, storms, tally, base>>
orderVars == <<stormsA, stormsB, outA, outB>>
mainVars == <<sourceVars, pc, error, datasetVars, stormVars, legVars,
              printVars, historyVars>>
vars == <<mainVars, orderVars>>

NoPoint == [lat |-> 0, lon |-> 0]
NoReport == [landfall |-> 0, max_wind |-> 0, d |-> <<>>, t |-> <<>>,
             start |-> <<>>, end |-> <<>>, total_distance |-> 0,
             max_speed |-> RatZero, mean_speed |-> RatZero, printed |-> FALSE]

\* what readline() may return after n lines have been delivered
NextLines(n) ==
    IF n < MaxLines THEN HeaderLines \cup ObsLines \cup {Eof} ELSE {Eof}

Delivered(n, line) == IF line = Eof THEN n ELSE n + 1

\* main() up to line 177: nothing accumulated yet
Fresh ==
    /\ error = NoError
    /\ year = <<>> /\ hurricane = <<>> /\ result = <<>>
    /\ date = <<>> /\ h = <<>> /\ max_wind = 0 /\ count = 0
    /\ d = <<0>> /\ t = <<0>> /\ y = 0
    /\ curr_point = NoPoint /\ curr_time = <<>>
    /\ sum_distance = 0 /\ storm_propagation = <<>> /\ radii = <<>>
    /\ next_point = NoPoint /\ next_time = <<>>
    /\ distance = 0 /\ bearing = 0 /\ indices = <<>> /\ hours = RatZero
    /\ storm = [id |-> "", name |-> "None"]
    /\ stormReport = NoReport
    /\ summary = NoSummary
    /\ track = <<>> /\ storms = <<>> /\ base = 0
    /\ tally = [forced |-> 0, confirmed |-> 0, unconfirmed |-> 0]

Init ==
    /\ row \in NextLines(0)
    /\ nread = Delivered(0, row)
    /\ pc = "outer"
    /\ Fresh
    /\ stormsA = <<>> /\ stormsB = <<>>
    /\ outA = NoSummary /\ outB = NoSummary

(***************************************************************************)
(* Actions of main().                                                      *)
(***************************************************************************)
\* line 255: a line before the first header is passed over
SkipLine ==
    /\ pc = "outer"
    /\ row.kind = "obs"
    /\ \E line \in NextLines(nread) :
          /\ row' = line
          /\ nread' = Delivered(nread, line)
    /\ UNCHANGED <<pc, error, datasetVars, stormVars, legVars, printVars,
                   historyVars, orderVars>>

\* lines 179-195: a header line opens a storm and its first observation is read
StormHeader ==
    /\ pc = "outer"
    /\ row.kind = "header"
    /\ storm' = [id |-> storm_id(row), name |-> storm_name(row)]
    /\ date' = <<>> /\ h' = <<>> /\ max_wind' = 0 /\ count' = 0
    /\ d' = <<0>> /\ t' = <<0>>
    /\ track' = <<>>
    /\ base' = Len(result)
    /\ \E line \in NextLines(nread) :
          /\ row' = line
          /\ nread' = Delivered(nread, line)
          /\ IF line.kind = "obs"
             THEN /\ y' = year_of(line)
                  /\ year' = Append(year, year_of(line))
                  /\ curr_point' = point(line)
                  /\ curr_time' = storm_date(line) \o storm_time(line)
                  /\ sum_distance' = 0
                  /\ storm_propagation' = <<>>
                  /\ pc' = "inner"
                  /\ error' = error
             ELSE /\ pc' = "failed"
                  /\ error' = ValueErrorYear
                  /\ UNCHANGED <<y, year, curr_point, curr_time, sum_distance,
                                 storm_propagation>>
    /\ UNCHANGED <<hurricane, result, radii, legVars, stormReport, summary,
                   storms, tally, orderVars>>

\* lines 215-220: distance (nautical miles) and bearing from p1 to p2
Geodesic(p1, p2) == IF p1 # p2 THEN GeodesicOutcomes ELSE {<<0, 0>>}

\* the current observation never moved on to the next one
Advance_Stale(curr, next) == curr

\* lines 229-230: the next observation becomes the current one
Advance(curr, next) == next

\* line 222: distance / hour_diff(...)
Speed(dist, hrs) == Rat(dist * hrs[2], hrs[1])

\* lines 213-230: the leg from the current observation to the next one
Leg(line, rad) ==
    LET np == point(line)
        nt == storm_date(line) \o storm_time(line)
        hrs == hour_diff(curr_time, nt)
    IN /\ next_point' = np
       /\ next_time' = nt
       /\ hours' = hrs
       /\ \E g \in Geodesic(curr_point, np) :
             /\ distance' = g[1]
             /\ bearing' = g[2]
             /\ sum_distance' = sum_distance + g[1]
             /\ IF hrs[1] = 0
                THEN /\ pc' = "failed"
                     /\ error' = ZeroDivisionSpeed
                     /\ UNCHANGED <<storm_propagation, result, indices, tally,
                                    curr_point, curr_time>>
                ELSE /\ pc' = "inner"
                     /\ error' = error
                     /\ storm_propagation' =
                            Append(storm_propagation, Speed(g[1], hrs))
                     /\ IF Guard(rad, g[2])
                        THEN /\ result' = Append(result, Forced)
                             /\ indices' = indices
                             /\ tally' = [tally EXCEPT !.forced = @ + 1]
                        ELSE LET ix == MaxIndices(rad)
                                 out == check(ix, g[2])
                             IN /\ indices' = ix
                                /\ result' = Append(result, out)
                                /\ tally' =
                                     IF out = Confirmed
                                     THEN [tally EXCEPT !.confirmed = @ + 1]
                                     ELSE [tally EXCEPT !.unconfirmed = @ + 1]
                     /\ curr_point' = Advance(curr_point, np)
                     /\ curr_time' = Advance(curr_time, nt)

\* line 200: does this observation replace the peak wind
NewPeak(w, peak) == w > peak

\* lines 196-230: one pass of the inner loop over the observation in row
Observe ==
    /\ pc = "inner"
    /\ date' = Append(date, storm_date(row))
    /\ radii' = RadiiFields(row)
    /\ track' = Append(track, row)
    /\ IF NewPeak(wind(row), max_wind)
       THEN /\ max_wind' = wind(row)
            /\ d' = storm_date(row)
            /\ t' = storm_time(row)
       ELSE UNCHANGED <<max_wind, d, t>>
    /\ count' = IF is_landfill(row) THEN count + 1 ELSE count
    /\ h' = IF is_hurricane(row) THEN Append(h, year_of(row)) ELSE h
    /\ \E line \in NextLines(nread) :
          /\ row' = line
          /\ nread' = Delivered(nread, line)
          /\ IF line.kind = "obs"
             THEN Leg(line, RadiiFields(row))
             ELSE /\ pc' = "storm_end"
                  /\ UNCHANGED <<error, result, curr_point, curr_time,
                                 sum_distance, storm_propagation, legVars,
                                 tally>>
    /\ UNCHANGED <<year, hurricane, y, printVars, storms, base, orderVars>>

\* lines 241-252: the maximum and the mean of the propagation speeds
MaxSpeed(speeds) == IF speeds # <<>> THEN RatMax(speeds) ELSE RatZero

MeanSpeed(speeds) ==
    IF speeds = <<>> THEN RatZero
    ELSE IF Len(speeds) # 1 THEN RatDivInt(RatSum(speeds), Len(speeds))
    ELSE speeds[1]

\* lines 231-254: the storm's report, and the storm's year if it was a hurricane
StormEnd ==
    /\ pc = "storm_end"
    /\ stormReport' =
          [landfall |-> count, max_wind |-> max_wind, d |-> d, t |-> t,
           start |-> date[1],
           end |-> IF Len(date) > 1 THEN date[Len(date)] ELSE date[1],
           total_distance |-> sum_distance,
           max_speed |-> MaxSpeed(storm_propagation),
           mean_speed |-> MeanSpeed(storm_propagation),
           printed |-> TRUE]
    /\ hurricane' = IF h # <<>> THEN Append(hurricane, y) ELSE hurricane
    /\ storms' = Append(storms,
                        [year |-> year_of(track[1]),
                         hu |-> \E i \in DOMAIN track : is_hurricane(track[i])])
    /\ pc' = "outer"
    /\ UNCHANGED <<sourceVars, error, year, result, stormVars, legVars, storm,
                   summary, track, tally, base, orderVars>>

\* lines 257-269: the yearly report and the rate, once the input is exhausted
Summarise ==
    /\ pc = "outer"
    /\ row = Eof
    /\ summary' = DatasetSummary(year, hurricane, result)
    /\ error' = summary'.error
    /\ pc' = IF summary'.error = NoError THEN "done" ELSE "failed"
    /\ UNCHANGED <<sourceVars, datasetVars, stormVars, legVars, storm,
                   stormReport, historyVars, orderVars>>

Next == SkipLine \/ StormHeader \/ Observe \/ StormEnd \/ Summarise

Spec == Init /\ [][Next]_vars

(***************************************************************************)
(* SpecOrder: the dataset accumulation applied to two orderings of the     *)
(* same storms.  A storm is what it hands to the accumulators: its year    *)
(* (line 191), whether it ever was a hurricane (lines 238-239) and the     *)
(* outcomes of its legs (lines 225, 228).                                  *)
(***************************************************************************)
OrderYears == {2001, 2002, 2003}

OrderOutcomes == {<<>>, <<Confirmed>>, <<Forced, None>>}

OrderStorms == [year : OrderYears, hu : BOOLEAN, outcomes : OrderOutcomes]

\* the accumulators after the storms of list, in order
RECURSIVE Accumulate(_)
Accumulate(list) ==
    IF list = <<>>
    THEN [year |-> <<>>, hurricane |-> <<>>, result |-> <<>>]
    ELSE LET acc == Accumulate(SubSeq(list, 1, Len(list) - 1))
             s == list[Len(list)]
         IN [year |-> Append(acc.year, s.year),
             hurricane |-> IF s.hu THEN Append(acc.hurricane, s.year)
                           ELSE acc.hurricane,
             result |-> acc.result \o s.outcomes]

RunDataset(list) ==
    LET acc == Accumulate(list)
    IN DatasetSummary(acc.year, acc.hurricane, acc.result)

Permutations(n) ==
    {p \in [1..n -> 1..n] : \A i, j \in 1..n : p[i] = p[j] => i = j}

InitOrder ==
    /\ row = Eof
    /\ nread = 0
    /\ pc = "order"
    /\ Fresh
    /\ \E n \in 1..MaxStorms :
          /\ stormsA \in [1..n -> OrderStorms]
          /\ \E p \in Permutations(n) : stormsB = [i \in 1..n |-> stormsA[p[i]]]
    /\ outA = NoSummary /\ outB = NoSummary

SummariseA ==
    /\ pc = "order"
    /\ outA = NoSummary
    /\ outA' = RunDataset(stormsA)
    /\ UNCHANGED <<mainVars, stormsA, stormsB, outB>>

SummariseB ==
    /\ pc = "order"
    /\ outB = NoSummary
    /\ outB' = RunDataset(stormsB)
    /\ UNCHANGED <<mainVars, stormsA, stormsB, outA>>

NextOrder == SummariseA \/ SummariseB

SpecOrder == InitOrder /\ [][NextOrder]_vars

(***************************************************************************)
(* Properties.                                                             *)
(***************************************************************************)
\* the yearly report has been printed (the rate may still fail after it)
YearlyPrinted == summary.error \in {NoError, ZeroDivisionRate}

\* the storm in track has been reported and no later storm has begun
StormReported == pc = "outer" /\ stormReport.printed

\* the last step computed a leg from the last row of track to row
LegTaken ==
    \/ pc = "inner" /\ track # <<>>
    \/ pc = "failed" /\ error = ZeroDivisionSpeed

TimeKey(record) == storm_date(record) \o storm_time(record)

StormsIn(yr) == {k \in DOMAIN storms : storms[k].year = yr}

HurricanesIn(yr) == {k \in DOMAIN storms : storms[k].year = yr /\ storms[k].hu}

\* C1: at finalization the yearly report lists every year from the first
\* storm's year to the last storm's year inclusive, once each and ascending,
\* with the number of storms whose first observation falls in that year and
\* the number of those that ever had hurricane status; a year of the range
\* without storms is listed with 0 and 0.
C1_YearlyReport ==
    YearlyPrinted =>
        LET first == storms[1].year
            last == storms[Len(storms)].year
            n == IF first <= last THEN last - first + 1 ELSE 0
        IN /\ Len(summary.yearly) = n
           /\ \A i \in 1..n :
                 /\ summary.yearly[i].year = first + i - 1
                 /\ summary.yearly[i].storms =
                        Cardinality(StormsIn(first + i - 1))
                 /\ summary.yearly[i].hurricanes =
                        Cardinality(HurricanesIn(first + i - 1))

\* storms in 2001 and 2003 only, a hurricane among them: 2002 is listed with 0 and 0
C1_Witness ==
    /\ pc = "done"
    /\ {storms[k].year : k \in DOMAIN storms} = {2001, 2003}
    /\ \E k \in DOMAIN storms : storms[k].hu
    /\ Len(summary.yearly) = 3
    /\ summary.yearly[2] = [year |-> 2002, storms |-> 0, hurricanes |-> 0]

MinOf(S) == CHOOSE x \in S : \A z \in S : x <= z

MaxOf(S) == CHOOSE x \in S : \A z \in S : z <= x

BothSummarised == outA # NoSummary /\ outB # NoSummary

ReportedYears(out) == {out.yearly[i].year : i \in DOMAIN out.yearly}

YearsSeen(list) == {list[i].year : i \in DOMAIN list}

C3_RateRange ==
    /\ summary.error = NoError =>
          /\ summary.rate # NoRate
          /\ 0 <= summary.rate[1]
          /\ summary.rate[1] <= 100 * summary.rate[2]
    /\ summary.error = ZeroDivisionRate =>
          /\ tally.confirmed = 0
          /\ \A i \in DOMAIN result : result[i] \in {Forced, None}
    /\ (summary # NoSummary /\ year # <<>> /\ tally.confirmed > 0) =>
          summary.error = NoError

\* a rate strictly between 0 and 100 was produced
C3_Witness ==
    /\ pc = "done"
    /\ tally.confirmed > 0
    /\ tally.unconfirmed > 0
    /\ summary.rate = <<50, 1>>

\* C4: the legs the guard forces are outside the tally: numerator and
\* denominator of the rate count only the legs the checker confirmed and
\* the legs the checker evaluated, whatever the number of forced legs, and
\* the rate is 100 * confirmed / (confirmed + evaluated without confirming).
C4_ForcedExcluded ==
    /\ CountOf(result, Confirmed) = tally.confirmed
    /\ RateTotal(result) = tally.confirmed + tally.unconfirmed
    /\ Len(result) = tally.forced + tally.confirmed + tally.unconfirmed
    /\ summary.error = NoError =>
          summary.rate = Rat(100 * tally.confirmed,
                             tally.confirmed + tally.unconfirmed)

\* a rate produced from a dataset holding forced and confirmed legs
C4_Witness ==
    /\ pc = "done"
    /\ tally.forced > 0
    /\ tally.confirmed > 0

\* C5: a storm with n observation lines has, when it ends, n-1 propagation
\* speeds and n-1 outcomes, each leg going from one observation of the
\* storm to the next observation of the same storm; a storm with a single
\* observation reports start = end, distance 0, maximum and mean speed 0
\* and adds no outcome.
C5_Legs ==
    /\ pc = "inner" =>
          /\ row.kind = "obs"
          /\ curr_point = point(row)
          /\ curr_time = TimeKey(row)
          /\ Len(storm_propagation) = Len(track)
          /\ Len(result) - base = Len(track)
          /\ track # <<>> =>
                /\ radii = RadiiFields(track[Len(track)])
                /\ next_point = point(row)
                /\ next_time = TimeKey(row)
                /\ hours = hour_diff(TimeKey(track[Len(track)]), TimeKey(row))
    /\ (pc = "storm_end" \/ StormReported) =>
          /\ Len(track) >= 1
          /\ Len(date) = Len(track)
          /\ Len(storm_propagation) = Len(track) - 1
          /\ Len(result) - base = Len(track) - 1
    /\ (StormReported /\ Len(track) = 1) =>
          /\ stormReport.start = stormReport.end
          /\ stormReport.start = storm_date(track[1])
          /\ stormReport.total_distance = 0
          /\ stormReport.max_speed = RatZero
          /\ stormReport.mean_speed = RatZero
          /\ Len(result) = base

\* a storm of one observation reported after a storm that had a leg
C5_Witness ==
    /\ StormReported
    /\ Len(track) = 1
    /\ Len(storms) = 2
    /\ Len(result) >= 1
    /\ stormReport.start = stormReport.end

\* norm as section 4.3 states it: 360 is subtracted once from 360 or more
SpecNorm(angle) == IF angle >= FullTurn THEN angle - FullTurn ELSE angle

SpecLow(b) == SpecNorm(b + LowOffset) \div QuadrantWidth

SpecHigh(b) == SpecNorm(b + HighOffset) \div QuadrantWidth

\* C6 as stated: the checker confirms exactly when low or high, computed
\* with a norm that subtracts 360 from an argument >= 360, is the quadrant
\* (i mod 4) of one of the indices; low and high are in 0..3.
C6_Original ==
    (pc = "inner" /\ track # <<>> /\ result[Len(result)] # Forced) =>
        /\ SpecLow(bearing) \in 0..3
        /\ SpecHigh(bearing) \in 0..3
        /\ result[Len(result)] = Confirmed <=>
              \E i \in DOMAIN indices :
                  indices[i] % 4 \in {SpecLow(bearing), SpecHigh(bearing)}

NumericMax(values) ==
    CHOOSE m \in {values[i] : i \in DOMAIN values} :
        \A i \in DOMAIN values : values[i] <= m

\* the zero-based positions, ascending, holding the numeric maximum
NumericMaxPositions(values) ==
    LET m == NumericMax(values)
        F[i \in 0..Len(values)] ==
            IF i = 0 THEN <<>>
            ELSE IF values[i] = m THEN Append(F[i - 1], i - 1) ELSE F[i - 1]
    IN F[Len(values)]

\* C7 as stated: with the 12 integer radii of the observation a leg starts
\* from, the outcome is forced when their numeric maximum is -999 or 0 or
\* the bearing is 0, and otherwise the checker is applied to exactly the
\* positions holding that numeric maximum.
C7_Original ==
    (pc = "inner" /\ track # <<>>) =>
        LET values == track[Len(track)].radii
        IN IF NumericMax(values) \in {NoData, 0} \/ bearing = 0
           THEN result[Len(result)] = Forced
           ELSE /\ indices = NumericMaxPositions(values)
                /\ result[Len(result)] =
                       check(NumericMaxPositions(values), bearing)

\* the seconds between two instants, whatever their order
SecondsApart(time1, time2) ==
    LET s1 == Strptime(time1)
        s2 == Strptime(time2)
    IN Abs((s2[1] - s1[1]) * SecondsPerDay + (s2[2] - s1[2]))

\* C8 as stated: the elapsed hours of a leg are the absolute difference of
\* its two instants in hours, whatever their separation and order.
C8_Original ==
    LegTaken =>
        hours = Rat(SecondsApart(TimeKey(track[Len(track)]), next_time),
                    SecondsPerHour)

\* C9 as stated: a leg whose elapsed hours are 0 adds no speed, does not
\* fail with a division by zero, and still adds its distance.
C9_Original ==
    (LegTaken /\ hours = RatZero) =>
        /\ pc # "failed"
        /\ error # ZeroDivisionSpeed
        /\ Len(storm_propagation) < Len(track)

PeakWind(rows) ==
    CHOOSE m \in {wind(rows[i]) : i \in DOMAIN rows} :
        \A i \in DOMAIN rows : wind(rows[i]) <= m

FirstAt(rows, m) ==
    CHOOSE i \in DOMAIN rows :
        /\ wind(rows[i]) = m
        /\ \A j \in 1..(i - 1) : wind(rows[j]) # m

\* C10 as stated: the reported peak wind is the maximum wind of the storm's
\* observations and the reported date and time are those of the earliest
\* observation attaining it, whatever the integer wind values.
C10_Original ==
    StormReported =>
        LET m == PeakWind(track)
            i == FirstAt(track, m)
        IN /\ stormReport.max_wind = m
           /\ stormReport.d = storm_date(track[i])
           /\ stormReport.t = storm_time(track[i])

=============================================================================
